---- MODULE Spec2Model ----
(***************************************************************************)
(* Soryn License Panel: the bulk restore engine of the backend server.     *)
(*                                                                         *)
(* The state is the module-level restoreStatus object and SELLER_KEY,      *)
(* plus, for every invocation of the POST /api/restore handler, its        *)
(* position (pc) and its locals (licenses, wipeFirst, i, retries).         *)
(*                                                                         *)
(* Node runs one handler at a time until it reaches an await: an action    *)
(* is the code a handler runs between two awaits.  Every upstream call     *)
(* and every sleep is an await, so these are the places where the other    *)
(* handlers (start, stop, status) interleave with a restore worker.  The   *)
(* one exception is the state "acked", right after the acknowledgement     *)
(* of an accepted start (line 415): the handler runs on without yielding,  *)
(* so nothing else can take a step there (see Quiescent).                  *)
(*                                                                         *)
(* Spec and FairSpec are the restore routes.  ItemSpec is one restore job  *)
(* with the history of the current item (log).  ParseSpec is the parsing   *)
(* code, parseDurationFromKeyName and POST /api/parse-backup with          *)
(* parseBackupText, one call at a time (fn), on strings computed character *)
(* by character.                                                           *)
(***************************************************************************)
EXTENDS Integers, Sequences, FiniteSets, TLC

\* ---------------------------------------------------------------- bounds
MaxStarts == 2      \* POST /api/restore requests in one behaviour
MaxLen == 2         \* longest licenses list a request carries
MaxParts == 3       \* pieces a key name is put together from
MaxLines == 2       \* lines of a backup text of several lines

\* ------------------------------------------------------- program constants
MaxRetries == 3     \* let retries = 3
RateLimitBackoff == 10000   \* await sleep(10000) of the rate-limit branch
ErrorBackoff == 5000        \* await sleep(5000) of the inner catch
\* the return values of parseDurationFromKeyName, in seconds
Lifetime == 999999999
Month == 2592000
Week == 604800
Day == 86400
Year == 31536000

\* JavaScript's null / undefined
null == "null"
undefined == "undefined"

StoppedByUser == "Stopped by user"
AlreadyInProgress == "Restore already in progress"
InvalidLicenses == "Invalid licenses data"
NotConnected == "Not connected"
\* parseDurationFromKeyName(undefined): undefined.toLowerCase() throws
TypeErrorMsg == "Cannot read properties of undefined (reading 'toLowerCase')"
\* makeKeyAuthRequest rejects: JSON.parse failed, or the socket's 'error' event
DecodeErrorMsg == "Invalid response: "
TransportErrorMsg == "connect ECONNREFUSED"
WipingKey == "Wiping database..."
CompleteKey == "Complete"

Workers == 1..MaxStarts

\* ------------------------------------------------------------------ inputs
\* A record of the licenses list: a record with a key, a record without a
\* key and without a duration, and a record without a key but with a
\* duration (license.duration || parseDurationFromKeyName(key) then never
\* calls the parser).  duration 0 stands for an absent (falsy) duration.
GoodRecord == [key |-> "Soryn-AAAAA-BBBBB", duration |-> 0]
KeylessRecord == [key |-> undefined, duration |-> 0]
KeylessWithDuration == [key |-> undefined, duration |-> 86400]
Items == {GoodRecord, KeylessRecord}

RECURSIVE SeqsUpTo(_, _)
SeqsUpTo(S, n) ==
    IF n = 0 THEN {<<>>}
    ELSE LET shorter == SeqsUpTo(S, n - 1)
         IN  shorter \cup {Append(s, x) : s \in {t \in shorter : Len(t) = n - 1}, x \in S}

\* req.body.licenses: absent, something that is not an array, or an array
Missing == [kind |-> "undefined", list |-> <<>>]
NotAList == [kind |-> "object", list |-> <<>>]
ArrayOf(s) == [kind |-> "array", list |-> s]
\* The arrays: every list of at most MaxLen records with or without a key,
\* and one list whose record has no key but has a duration.
Lists == SeqsUpTo(Items, MaxLen) \cup {<<KeylessWithDuration>>}
Bodies == {Missing, NotAList} \cup {ArrayOf(s) : s \in Lists}
\* The requests of the fair specification, one for each way out of the
\* handler: an empty list, a list of two items, a list whose second record
\* faults.
FairBodies == {ArrayOf(<<>>), ArrayOf(<<GoodRecord, GoodRecord>>),
               ArrayOf(<<GoodRecord, KeylessRecord>>)}

\* The words the classification of lines 463-466 looks for in a message; a
\* message is modelled by the set of those words it contains.
Messages == { {}, {"already"}, {"exists"}, {"duplicate"}, {"rate"}, {"limit"},
              {"slow"}, {"already", "exists", "rate", "limit"} }

\* What awaiting makeKeyAuthRequest yields: a decoded document (success, and
\* a message or none) or a throw (the promise rejected).
Responses ==
    {[kind |-> "json", success |-> TRUE, hasMessage |-> FALSE, message |-> {}, error |-> ""]}
    \cup {[kind |-> "json", success |-> FALSE, hasMessage |-> TRUE, message |-> m, error |-> ""] :
            m \in Messages}
    \cup {[kind |-> "json", success |-> FALSE, hasMessage |-> FALSE, message |-> {}, error |-> ""]}
    \cup {[kind |-> "throw", success |-> FALSE, hasMessage |-> FALSE, message |-> {}, error |-> e] :
            e \in {DecodeErrorMsg, TransportErrorMsg}}

VARIABLES
    SELLER_KEY,     \* null, or the seller key fetched at startup
    restoreStatus,  \* the module-level status object
    pc,             \* pc[w]: where handler invocation w of POST /api/restore is
    licenses,       \* licenses[w]: req.body.licenses of invocation w
    wipeFirst,      \* wipeFirst[w]: req.body.wipeFirst
    i,              \* i[w]: the loop index (0-based, as in the code)
    retries,        \* retries[w]: attempts left for the current item (0 once
                    \* the item's while loop is left: the local is dead then)
    headersSent,    \* headersSent[w]: res.headersSent
    reply,          \* the HTTP response the last step sent, if any
    stopIssued,     \* stopIssued[w]: a stop request arrived while w was working
    log,            \* log[w]: the create calls, responses and backoff waits of
                    \* the current item of w (a history variable)
    fn,             \* the last call of a parsing function: input and result
    simple          \* server.js: the locals of one invocation of its handler
                    \* of POST /api/restore, and where it is

vars == <<SELLER_KEY, restoreStatus, pc, licenses, wipeFirst, i, retries,
          headersSent, reply, stopIssued, log, fn, simple>>

NoReply == [to |-> "none"]
NoCall == [op |-> "none"]
\* server.js: no request to POST /api/restore has come in
NoRequest ==
    [pc |-> "idle", licenses |-> Missing, wipeFirst |-> FALSE, index |-> 0,
     success |-> 0, failed |-> 0, skipped |-> 0, calls |-> <<>>]

\* ----------------------------------------------------------- status object
\* let restoreStatus = {...} at module load
InitialStatus ==
    [running |-> FALSE, total |-> 0, processed |-> 0, success |-> 0, skipped |-> 0,
     failed |-> 0, currentKey |-> "", error |-> null]


\* a broken reset: the failed counter of the previous job is kept
ResetStatus_StaleFailed(n) ==
    [running |-> TRUE, total |-> n, processed |-> 0, success |-> 0, skipped |-> 0,
     failed |-> restoreStatus.failed, currentKey |-> "", error |-> null]

\* restoreStatus = { running: true, total: licenses.length, ... }
ResetStatus(n) ==
    [running |-> TRUE, total |-> n, processed |-> 0, success |-> 0, skipped |-> 0,
     failed |-> 0, currentKey |-> "", error |-> null]

\* the outer catch: restoreStatus.running = false; restoreStatus.error = error.message
CatchStatus(st, msg) == [st EXCEPT !.running = FALSE, !.error = msg]

\* after the loop: restoreStatus.running = false; restoreStatus.currentKey = 'Complete'
FinishStatus(st) == [st EXCEPT !.running = FALSE, !.currentKey = CompleteKey]

\* if (!restoreStatus.running) { restoreStatus.error = 'Stopped by user'; break; }
CancelStatus(st) == [st EXCEPT !.error = StoppedByUser]

\* a broken item start: currentKey is not written
ItemStatus_KeepKey(st, key, idx) == [st EXCEPT !.processed = idx + 1]

\* restoreStatus.currentKey = key; restoreStatus.processed = i + 1
ItemStatus(st, key, idx) == [st EXCEPT !.currentKey = key, !.processed = idx + 1]

\* if (!licenses || !Array.isArray(licenses)) throw ...
InvalidBody(b) == b.kind = "undefined" \/ b.kind # "array"

\* license.duration || parseDurationFromKeyName(key): the parser is called
\* when the duration is falsy, and throws a TypeError on a missing key
Throws(license) == license.duration = 0 /\ license.key = undefined

\* a broken classification: the rate-limit words are looked for first
Classify_RateFirst(resp) ==
    IF resp.kind = "throw" THEN "throw"
    ELSE IF resp.success THEN "success"
    ELSE IF resp.hasMessage THEN
        IF resp.message \cap {"rate", "limit", "slow"} # {} THEN "rate"
        ELSE IF resp.message \cap {"already", "exists", "duplicate"} # {} THEN "skipped"
        ELSE "failed"
    ELSE "failed"

\* The classification of one awaited create call (lines 456-486):
\* "success", "skipped", "rate", "failed" or "throw"
Classify(resp) ==
    IF resp.kind = "throw" THEN "throw"
    ELSE IF resp.success THEN "success"
    ELSE IF resp.hasMessage THEN
        IF resp.message \cap {"already", "exists", "duplicate"} # {} THEN "skipped"
        ELSE IF resp.message \cap {"rate", "limit", "slow"} # {} THEN "rate"
        ELSE "failed"
    ELSE "failed"

\* a broken count: every rate-limited attempt is counted as failed
CountStatus_RateCountsFailed(st, class) ==
    CASE class = "success" -> [st EXCEPT !.success = @ + 1]
      [] class = "skipped" -> [st EXCEPT !.skipped = @ + 1]
      [] class \in {"failed", "rate"} -> [st EXCEPT !.failed = @ + 1]
      [] OTHER -> st

\* the counters after one awaited create call
CountStatus(st, class) ==
    CASE class = "success" -> [st EXCEPT !.success = @ + 1]
      [] class = "skipped" -> [st EXCEPT !.skipped = @ + 1]
      [] class = "failed"  -> [st EXCEPT !.failed = @ + 1]
      [] OTHER -> st

\* a broken retries--: the attempt is not consumed
Decrement_Stuck(r) == r

\* retries--
Decrement(r) == r - 1

\* a broken inner catch: failed is counted at every throw
AfterThrow_Always(st, r) == [st EXCEPT !.failed = @ + 1]

\* the inner catch, after its sleep and its retries--, with r attempts left:
\* if (retries === 0) restoreStatus.failed++
AfterThrow(st, r) == IF r = 0 THEN [st EXCEPT !.failed = @ + 1] ELSE st

\* ---------------------------------------------------------------- history
\* log[w] records what worker w does for its current item: a create call
\* issued, the response awaited from it, a backoff sleep that has returned.
\* Only ItemSpec keeps the history; under Spec and FairSpec log[w] is NoLog
\* from the start and stays so.
NoLog == <<[ev |-> "off"]>>
CallEvent == [ev |-> "call"]
RespEvent(resp) == [ev |-> "resp", resp |-> resp]
WaitEvent(ms) == [ev |-> "wait", ms |-> ms]
Recorded(l, e) == IF l = NoLog THEN NoLog ELSE Append(l, e)
Cleared(l) == IF l = NoLog THEN NoLog ELSE <<>>

\* ------------------------------------------------------------------- steps
Active(w) == pc[w] \notin {"idle", "rejected", "done"}

\* A handler that has acknowledged a start runs on to its first await before
\* any other handler or callback runs.
Quiescent == \A w \in Workers : pc[w] # "acked"

\* a broken outer catch: the error is sent whether or not a response went out
CatchReply_Unguarded(sent, msg) == [to |-> "start", success |-> FALSE, error |-> msg]

\* the outer catch: if (!res.headersSent) res.json({ success: false, error })
CatchReply(sent, msg) ==
    IF sent THEN NoReply ELSE [to |-> "start", success |-> FALSE, error |-> msg]

\* The handler returns, having sent r (or nothing): its locals are gone.
Exit(w, st, r) ==
    /\ restoreStatus' = st
    /\ reply' = r
    /\ pc' = [pc EXCEPT ![w] = "done"]
    /\ licenses' = [licenses EXCEPT ![w] = Missing]
    /\ wipeFirst' = [wipeFirst EXCEPT ![w] = FALSE]
    /\ i' = [i EXCEPT ![w] = 0]
    /\ retries' = [retries EXCEPT ![w] = 0]
    /\ stopIssued' = [stopIssued EXCEPT ![w] = FALSE]
    /\ log' = [log EXCEPT ![w] = Cleared(@)]

\* a broken loop head: the running flag is not looked at
EnterItem_NoCancelCheck(w, st, idx) ==
    LET lst == licenses[w].list IN
    IF idx >= Len(lst) THEN Exit(w, FinishStatus(st), NoReply)
    ELSE IF Throws(lst[idx + 1])
    THEN Exit(w, CatchStatus(st, TypeErrorMsg), CatchReply(headersSent[w], TypeErrorMsg))
    ELSE /\ restoreStatus' = ItemStatus(st, lst[idx + 1].key, idx)
         /\ reply' = NoReply
         /\ pc' = [pc EXCEPT ![w] = "create_call"]
         /\ i' = [i EXCEPT ![w] = idx]
         /\ retries' = [retries EXCEPT ![w] = MaxRetries]
         /\ log' = [log EXCEPT ![w] = Recorded(Cleared(@), CallEvent)]
         /\ UNCHANGED <<licenses, wipeFirst, stopIssued>>

\* for (let i = ...; i < licenses.length; ...) from the loop test at index
\* idx up to the first await of the item, or out of the loop to the end
EnterItem(w, st, idx) ==
    LET lst == licenses[w].list IN
    IF idx >= Len(lst) THEN Exit(w, FinishStatus(st), NoReply)
    ELSE IF ~st.running THEN Exit(w, FinishStatus(CancelStatus(st)), NoReply)
    ELSE IF Throws(lst[idx + 1])
    THEN Exit(w, CatchStatus(st, TypeErrorMsg), CatchReply(headersSent[w], TypeErrorMsg))
    ELSE /\ restoreStatus' = ItemStatus(st, lst[idx + 1].key, idx)
         /\ reply' = NoReply
         /\ pc' = [pc EXCEPT ![w] = "create_call"]
         /\ i' = [i EXCEPT ![w] = idx]
         /\ retries' = [retries EXCEPT ![w] = MaxRetries]
         /\ log' = [log EXCEPT ![w] = Recorded(Cleared(@), CallEvent)]
         /\ UNCHANGED <<licenses, wipeFirst, stopIssued>>

\* while (retries > 0 && !added), re-entered after a backoff sleep of ms
\* milliseconds with r attempts left: another create call, or on to the
\* inter-item sleep
RetryOrMoveOn(w, st, r, ms) ==
    /\ restoreStatus' = st
    /\ reply' = NoReply
    /\ retries' = [retries EXCEPT ![w] = r]
    /\ pc' = [pc EXCEPT ![w] = IF r > 0 THEN "create_call" ELSE "item_sleep"]
    /\ log' = [log EXCEPT ![w] =
                 IF r > 0 THEN Recorded(Recorded(@, WaitEvent(ms)), CallEvent)
                 ELSE Recorded(@, WaitEvent(ms))]
    /\ UNCHANGED <<licenses, wipeFirst, i, stopIssued>>

\* The restore state at module load, with the history off (NoLog) or on (<<>>)
RestoreInit(l) ==
    /\ SELLER_KEY \in {null, "seller-key"}
    /\ restoreStatus = InitialStatus
    /\ pc = [w \in Workers |-> "idle"]
    /\ licenses = [w \in Workers |-> Missing]
    /\ wipeFirst = [w \in Workers |-> FALSE]
    /\ i = [w \in Workers |-> 0]
    /\ retries = [w \in Workers |-> 0]
    /\ headersSent = [w \in Workers |-> FALSE]
    /\ reply = NoReply
    /\ stopIssued = [w \in Workers |-> FALSE]
    /\ log = [w \in Workers |-> l]

Init == RestoreInit(NoLog) /\ fn = NoCall /\ simple = NoRequest

\* GET /api/restore/status
Status ==
    /\ Quiescent
    /\ reply' = [to |-> "status", body |-> restoreStatus]
    /\ UNCHANGED <<SELLER_KEY, fn, simple, restoreStatus, pc, licenses, wipeFirst, i, retries,
                   headersSent, stopIssued, log>>

\* a broken stop handler: it flips the flag
StopStatus_Toggle(st) == [st EXCEPT !.running = ~@]

\* a broken stop handler: it also reports the cancellation itself
StopStatus_WritesError(st) == [st EXCEPT !.running = FALSE, !.error = StoppedByUser]

\* restoreStatus.running = false
StopStatus(st) == [st EXCEPT !.running = FALSE]

\* POST /api/restore/stop
Stop ==
    /\ Quiescent
    /\ restoreStatus' = StopStatus(restoreStatus)
    /\ reply' = [to |-> "stop", success |-> TRUE]
    /\ stopIssued' = [w \in Workers |-> stopIssued[w] \/ Active(w)]
    /\ UNCHANGED <<SELLER_KEY, fn, simple, pc, licenses, wipeFirst, i, retries, headersSent, log>>

\* POST /api/restore, a guard or the validation throws: the outer catch
\* writes the status object and answers with the error
StartRejected(w, b, msg) ==
    /\ restoreStatus' = CatchStatus(restoreStatus, msg)
    /\ pc' = [pc EXCEPT ![w] = "rejected"]
    /\ licenses' = [licenses EXCEPT ![w] = b]
    /\ headersSent' = [headersSent EXCEPT ![w] = TRUE]
    /\ reply' = CatchReply(headersSent[w], msg)
    /\ UNCHANGED <<wipeFirst, i, retries, stopIssued, log>>

\* POST /api/restore up to the acknowledgement (lines 391-415)
StartRequest(w, b, wipe) ==
    /\ Quiescent
    /\ pc[w] = "idle"
    /\ \A v \in Workers : v < w => pc[v] # "idle"
    /\ IF SELLER_KEY = null THEN StartRejected(w, Missing, NotConnected)
       ELSE IF restoreStatus.running THEN StartRejected(w, Missing, AlreadyInProgress)
       ELSE IF InvalidBody(b) THEN StartRejected(w, b, InvalidLicenses)
       ELSE /\ restoreStatus' = ResetStatus(Len(b.list))
            /\ reply' = [to |-> "start", success |-> TRUE, message |-> "Restore started",
                         total |-> Len(b.list)]
            /\ headersSent' = [headersSent EXCEPT ![w] = TRUE]
            /\ pc' = [pc EXCEPT ![w] = "acked"]
            /\ licenses' = [licenses EXCEPT ![w] = b]
            /\ wipeFirst' = [wipeFirst EXCEPT ![w] = wipe]
            /\ UNCHANGED <<i, retries, stopIssued, log>>
    /\ UNCHANGED <<SELLER_KEY, fn, simple>>

\* ... and on, without yielding, to the first await (lines 417-456)
StartContinue(w) ==
    /\ pc[w] = "acked"
    /\ IF wipeFirst[w]
       THEN /\ restoreStatus' = [restoreStatus EXCEPT !.currentKey = WipingKey]
            /\ reply' = NoReply
            /\ pc' = [pc EXCEPT ![w] = "wipe_keys"]
            /\ UNCHANGED <<licenses, wipeFirst, i, retries, stopIssued, log>>
       ELSE EnterItem(w, restoreStatus, 0)
    /\ UNCHANGED <<SELLER_KEY, fn, simple, headersSent>>

\* await makeKeyAuthRequest(wipeKeys) / await makeKeyAuthRequest(wipeUsers):
\* the result is not looked at; a throw goes to the outer catch
WipeReturn(w, resp) ==
    /\ Quiescent
    /\ pc[w] \in {"wipe_keys", "wipe_users"}
    /\ IF resp.kind = "throw"
       THEN Exit(w, CatchStatus(restoreStatus, resp.error),
                 CatchReply(headersSent[w], resp.error))
       ELSE /\ pc' = [pc EXCEPT ![w] = IF pc[w] = "wipe_keys" THEN "wipe_sleep1" ELSE "wipe_sleep2"]
            /\ reply' = NoReply
            /\ UNCHANGED <<restoreStatus, licenses, wipeFirst, i, retries, stopIssued, log>>
    /\ UNCHANGED <<SELLER_KEY, fn, simple, headersSent>>

\* await sleep(2000) returns: the second wipe call is issued
WipeSleep1Done(w) ==
    /\ Quiescent
    /\ pc[w] = "wipe_sleep1"
    /\ pc' = [pc EXCEPT ![w] = "wipe_users"]
    /\ reply' = NoReply
    /\ UNCHANGED <<SELLER_KEY, fn, simple, restoreStatus, licenses, wipeFirst, i, retries,
                   headersSent, stopIssued, log>>

\* await sleep(3000) returns: into the loop
WipeSleep2Done(w) ==
    /\ Quiescent
    /\ pc[w] = "wipe_sleep2"
    /\ EnterItem(w, restoreStatus, 0)
    /\ UNCHANGED <<SELLER_KEY, fn, simple, headersSent>>

\* await makeKeyAuthRequest(params) returns or throws (lines 456-486, up to
\* the next await)
CreateReturn(w, resp) ==
    /\ Quiescent
    /\ pc[w] = "create_call"
    /\ LET class == Classify(resp) IN
       /\ restoreStatus' = CountStatus(restoreStatus, class)
       /\ pc' = [pc EXCEPT ![w] = CASE class = "rate" -> "rate_sleep"
                                    [] class = "throw" -> "err_sleep"
                                    [] OTHER -> "item_sleep"]
       /\ retries' = [retries EXCEPT ![w] = IF class \in {"rate", "throw"} THEN @ ELSE 0]
    /\ log' = [log EXCEPT ![w] = Recorded(@, RespEvent(resp))]
    /\ reply' = NoReply
    /\ UNCHANGED <<SELLER_KEY, fn, simple, licenses, wipeFirst, i, headersSent, stopIssued>>

\* await sleep(10000) returns
RateSleepDone(w) ==
    /\ Quiescent
    /\ pc[w] = "rate_sleep"
    /\ RetryOrMoveOn(w, restoreStatus, Decrement(retries[w]), RateLimitBackoff)
    /\ UNCHANGED <<SELLER_KEY, fn, simple, headersSent>>

\* await sleep(5000) of the inner catch returns
ErrSleepDone(w) ==
    /\ Quiescent
    /\ pc[w] = "err_sleep"
    /\ RetryOrMoveOn(w, AfterThrow(restoreStatus, Decrement(retries[w])),
                     Decrement(retries[w]), ErrorBackoff)
    /\ UNCHANGED <<SELLER_KEY, fn, simple, headersSent>>

\* await sleep(1500) returns (and, every 20 keys, the extra await sleep(5000):
\* nothing is read or written between the two sleeps, they are one
\* suspension here): i++ and the next turn of the loop
ItemSleepDone(w) ==
    /\ Quiescent
    /\ pc[w] = "item_sleep"
    /\ EnterItem(w, restoreStatus, i[w] + 1)
    /\ UNCHANGED <<SELLER_KEY, fn, simple, headersSent>>

WorkerStep(w) ==
    \/ StartContinue(w)
    \/ \E resp \in Responses : WipeReturn(w, resp)
    \/ WipeSleep1Done(w)
    \/ WipeSleep2Done(w)
    \/ \E resp \in Responses : CreateReturn(w, resp)
    \/ RateSleepDone(w)
    \/ ErrSleepDone(w)
    \/ ItemSleepDone(w)

Next ==
    \/ Status
    \/ Stop
    \/ \E w \in Workers, b \in Bodies, wipe \in BOOLEAN : StartRequest(w, b, wipe)
    \/ \E w \in Workers : WorkerStep(w)

Spec == Init /\ [][Next]_vars

\* Status requests read only; the fair specification leaves them out and
\* draws the start requests from FairBodies.
FairNext ==
    \/ Stop
    \/ \E w \in Workers, b \in FairBodies, wipe \in BOOLEAN : StartRequest(w, b, wipe)
    \/ \E w \in Workers : WorkerStep(w)

\* The event loop runs every callback that is ready: each awaited upstream
\* call and each sleep of a worker eventually returns.
FairSpec == Init /\ [][FairNext]_vars /\ \A w \in Workers : WF_vars(WorkerStep(w))

\* The specification that keeps the per-item history: one restore job (the
\* first invocation of the handler), its list drawn from ItemBodies, with
\* the stop and status requests around it.
ItemBodies == FairBodies \cup {ArrayOf(<<GoodRecord>>)}

ItemNext ==
    \/ Status
    \/ Stop
    \/ \E b \in ItemBodies, wipe \in BOOLEAN : StartRequest(1, b, wipe)
    \/ \E w \in Workers : WorkerStep(w)

ItemInit == RestoreInit(<<>>) /\ fn = NoCall /\ simple = NoRequest

ItemSpec == ItemInit /\ [][ItemNext]_vars


\* ------------------------------------------------------------------ strings
\* A JavaScript string is a TLA+ string; Len, SubSeq and \o work on it.
UpperCase == "ABCDEFGHIJKLMNOPQRSTUVWXYZ"
LowerCase == "abcdefghijklmnopqrstuvwxyz"
CharAt(s, k) == SubSeq(s, k, k)

\* String.prototype.toLowerCase, for one character and for a string
LowerChar(c) ==
    IF \E k \in 1..Len(UpperCase) : CharAt(UpperCase, k) = c
    THEN CharAt(LowerCase, CHOOSE k \in 1..Len(UpperCase) : CharAt(UpperCase, k) = c)
    ELSE c

RECURSIVE ToLowerCase(_)
ToLowerCase(s) ==
    IF Len(s) = 0 THEN ""
    ELSE LowerChar(CharAt(s, 1)) \o ToLowerCase(SubSeq(s, 2, Len(s)))

\* String.prototype.startsWith / includes
StartsWith(s, p) == Len(s) >= Len(p) /\ SubSeq(s, 1, Len(p)) = p
Includes(s, p) == \E k \in 1..(Len(s) - Len(p) + 1) : SubSeq(s, k, k + Len(p) - 1) = p

\* every string made of at most n of the pieces of S, one after the other
RECURSIVE Concatenations(_, _)
Concatenations(S, n) ==
    IF n = 0 THEN {""}
    ELSE LET shorter == Concatenations(S, n - 1)
         IN  shorter \cup {s \o x : s \in shorter, x \in S}

\* ------------------------------------------------------ duration of a key
\* a broken parser: the key is matched as it is written
parseDurationFromKeyName_CaseSensitive(keyName) ==
    LET lower == keyName IN
    IF Includes(lower, "lifetime") THEN Lifetime
    ELSE IF Includes(lower, "1month") \/ Includes(lower, "-1m") THEN Month
    ELSE IF Includes(lower, "1week") \/ Includes(lower, "-1w") THEN Week
    ELSE IF Includes(lower, "1day") \/ Includes(lower, "-1d") THEN Day
    ELSE IF Includes(lower, "1year") \/ Includes(lower, "-1y") THEN Year
    ELSE Lifetime

\* function parseDurationFromKeyName(keyName)
parseDurationFromKeyName(keyName) ==
    LET lower == ToLowerCase(keyName) IN
    IF Includes(lower, "lifetime") THEN Lifetime
    ELSE IF Includes(lower, "1month") \/ Includes(lower, "-1m") THEN Month
    ELSE IF Includes(lower, "1week") \/ Includes(lower, "-1w") THEN Week
    ELSE IF Includes(lower, "1day") \/ Includes(lower, "-1d") THEN Day
    ELSE IF Includes(lower, "1year") \/ Includes(lower, "-1y") THEN Year
    ELSE Lifetime

\* The key names: what at most MaxParts of these pieces spell, so that a
\* marker can stand alone, beside another marker, in either case, or be put
\* together from smaller pieces.
KeyPieces == {"Soryn-XXXX", "-1", "m", "lifetime", "LIFETIME", "1month", "-1M",
              "1week", "-1w", "1day", "-1D", "1year", "-1y"}
KeyNames == Concatenations(KeyPieces, MaxParts)

\* ---------------------------------------------------------- backup text
\* \s of a regular expression, and the characters trim() removes
IsSpace(c) == c \in {" ", "\t", "\r", "\n"}

\* String.prototype.trim
RECURSIVE TrimStart(_)
TrimStart(s) ==
    IF Len(s) > 0 /\ IsSpace(CharAt(s, 1)) THEN TrimStart(SubSeq(s, 2, Len(s))) ELSE s
RECURSIVE TrimEnd(_)
TrimEnd(s) ==
    IF Len(s) > 0 /\ IsSpace(CharAt(s, Len(s))) THEN TrimEnd(SubSeq(s, 1, Len(s) - 1)) ELSE s
Trim(s) == TrimEnd(TrimStart(s))

\* content.split('\n')
RECURSIVE SplitLines(_)
SplitLines(s) ==
    IF \E k \in 1..Len(s) : CharAt(s, k) = "\n"
    THEN LET k == CHOOSE n \in 1..Len(s) :
                     CharAt(s, n) = "\n" /\ \A j \in 1..(n - 1) : CharAt(s, j) # "\n"
         IN  <<SubSeq(s, 1, k - 1)>> \o SplitLines(SubSeq(s, k + 1, Len(s)))
    ELSE <<s>>

\* trimmed.split(/\s{2,}/): the first run of two or more whitespace
\* characters ends a column
RECURSIVE SplitColumns(_)
SplitColumns(s) ==
    IF \E k \in 1..(Len(s) - 1) : IsSpace(CharAt(s, k)) /\ IsSpace(CharAt(s, k + 1))
    THEN LET k == CHOOSE n \in 1..(Len(s) - 1) :
                     /\ IsSpace(CharAt(s, n)) /\ IsSpace(CharAt(s, n + 1))
                     /\ \A j \in 1..(n - 1) : ~(IsSpace(CharAt(s, j)) /\ IsSpace(CharAt(s, j + 1)))
         IN  <<SubSeq(s, 1, k - 1)>> \o SplitColumns(TrimStart(SubSeq(s, k + 2, Len(s))))
    ELSE <<s>>

\* /^\d+$/.test(s)
IsDigits(s) == Len(s) > 0 /\ \A k \in 1..Len(s) : Includes("0123456789", CharAt(s, k))

\* The five prefixes of lines 100-101 are three characters each, none of
\* them ASCII: the same first two and a third of their own.  They are
\* written here with "@", "%" and a digit, which occur nowhere else.
BorderPrefixes == {"@%1", "@%2", "@%3", "@%4", "@%5"}

\* the test of lines 100-103 on a trimmed line
Skipped(trimmed) ==
    \/ trimmed = ""
    \/ \E p \in BorderPrefixes : StartsWith(trimmed, p)
    \/ StartsWith(trimmed, "Key")
    \/ Includes(trimmed, "license(s):")
    \/ Includes(trimmed, "MAIN MENU")
    \/ Includes(trimmed, "Select option")

\* parts.length >= 2 ? parts[1].trim() : 'Not Used'
StatusOf(parts) == IF Len(parts) >= 2 THEN Trim(parts[2]) ELSE "Not Used"

\* a broken level: the third column is taken as it is
LevelOf_Unchecked(parts) == IF Len(parts) >= 3 THEN Trim(parts[3]) ELSE "1"

\* parts.length >= 3 && /^\d+$/.test(parts[2].trim()) ? parts[2].trim() : '1'
LevelOf(parts) == IF Len(parts) >= 3 /\ IsDigits(Trim(parts[3])) THEN Trim(parts[3]) ELSE "1"

\* one turn of the loop of parseBackupText: the records the line adds
LineLicenses(line) ==
    LET trimmed == Trim(line) IN
    IF Skipped(trimmed) THEN <<>>
    ELSE LET parts == SplitColumns(trimmed)
             key == Trim(parts[1])
         IN  IF StartsWith(ToLowerCase(key), "soryn")
             THEN <<[key |-> key, status |-> StatusOf(parts), level |-> LevelOf(parts),
                     duration |-> parseDurationFromKeyName(key)]>>
             ELSE <<>>

RECURSIVE LicensesOf(_)
LicensesOf(lines) ==
    IF lines = <<>> THEN <<>> ELSE LineLicenses(Head(lines)) \o LicensesOf(Tail(lines))

\* function parseBackupText(content)
parseBackupText(content) == LicensesOf(SplitLines(content))

\* The lines: a first column, alone or followed by a second and a third
\* one, the columns apart by one or by more whitespace characters, with or
\* without whitespace around the line.
FirstCells == {"Soryn-AAAAA-BBBBB", "sORYN-1week", "Sory-AAAAA", "XSoryn-AAAAA", "Key",
               "@%1@%1@%1", "+-----+", "MAIN MENU", "Soryn 2 license(s):", "Select option:"}
SecondCells == {"Used", "Not Used"}
ThirdCells == {"2", "10", "x2", "2 a"}
Gaps == {" ", "  ", " \t ", "\t"}
LeftMargins == {"", " \t"}
RightMargins == {"", " "}
Rows ==
    FirstCells
    \cup {a \o g \o b : a \in FirstCells, g \in Gaps, b \in SecondCells}
    \cup {a \o g \o b \o h \o c :
            a \in FirstCells, g \in Gaps, b \in SecondCells, h \in Gaps, c \in ThirdCells}
TextLines == {l \o row \o r : l \in LeftMargins, row \in Rows, r \in RightMargins}

\* The files of several lines: at most MaxLines of these lines
SampleLines == {"", "Key   Status   Level", "@%2@%1@%1@%1", "3 license(s):",
                "Soryn-AAAAA-BBBBB  Used  2", "sORYN-1week  Not Used\r"}
RECURSIVE JoinLines(_)
JoinLines(ls) ==
    IF Len(ls) = 0 THEN ""
    ELSE IF Len(ls) = 1 THEN ls[1]
    ELSE ls[1] \o "\n" \o JoinLines(Tail(ls))
BackupTexts == TextLines \cup {JoinLines(ls) : ls \in SeqsUpTo(SampleLines, MaxLines)}

\* -------------------------------------------------- POST /api/parse-backup
\* A value of a JSON document's field: absent, null or an array of records
Absent == [kind |-> "absent", list |-> <<>>]
JsonNull == [kind |-> "null", list |-> <<>>]
JsonLists == {ArrayOf(s) : s \in SeqsUpTo(Items, MaxLen)}
JsonValues == {Absent, JsonNull} \cup JsonLists

\* What JSON.parse(content) returns: an object (with or without the fields
\* licenses and keys), an array, a number, null; NoDoc when it throws
NoDoc == [kind |-> "none", licenses |-> Absent, keys |-> Absent, list |-> <<>>]
JsonDocs ==
    {[kind |-> "object", licenses |-> l, keys |-> k, list |-> <<>>] :
        l \in JsonValues, k \in JsonValues}
    \cup {[kind |-> "array", licenses |-> Absent, keys |-> Absent, list |-> a.list] :
            a \in JsonLists}
    \cup {[kind |-> "number", licenses |-> Absent, keys |-> Absent, list |-> <<>>],
          [kind |-> "null", licenses |-> Absent, keys |-> Absent, list |-> <<>>]}

\* req.body.content: absent, a text JSON.parse rejects (none of BackupTexts
\* is a JSON text), or a JSON text, given by the document it decodes to
\* (of the text itself only "null" is ever read again)
Contents ==
    {[kind |-> "undefined", text |-> "", doc |-> NoDoc]}
    \cup {[kind |-> "text", text |-> t, doc |-> NoDoc] : t \in BackupTexts}
    \cup {[kind |-> "json", text |-> IF d.kind = "null" THEN "null" ELSE "", doc |-> d] :
            d \in JsonDocs}

\* undefined.split throws
SplitErrorMsg == "Cannot read properties of undefined (reading 'split')"

Truthy(v) == v.kind = "array"

\* json.licenses || json.keys || (Array.isArray(json) ? json : [])
JsonLicenses(json) ==
    IF Truthy(json.licenses) THEN json.licenses.list
    ELSE IF Truthy(json.keys) THEN json.keys.list
    ELSE IF json.kind = "array" THEN json.list
    ELSE <<>>

\* the inner try reaches its return: JSON.parse(content) returns, and the
\* value is not null (null.licenses throws into the inner catch)
JsonPath(content) == content.kind = "json" /\ content.doc.kind # "null"

\* the response of the route
ParseBackupResponse(content) ==
    IF JsonPath(content)
    THEN [success |-> TRUE, licenses |-> JsonLicenses(content.doc), format |-> "json",
          error |-> ""]
    ELSE IF content.kind = "undefined"
    THEN [success |-> FALSE, licenses |-> <<>>, format |-> "", error |-> SplitErrorMsg]
    ELSE [success |-> TRUE, licenses |-> parseBackupText(content.text), format |-> "text",
          error |-> ""]

BackupCall(c) ==
    [op |-> "backup", arg |-> c, done |-> FALSE,
     result |-> [success |-> FALSE, licenses |-> <<>>, format |-> "", error |-> ""]]

\* POST /api/parse-backup
ParseBackup ==
    /\ fn.op = "backup"
    /\ ~fn.done
    /\ fn' = [fn EXCEPT !.done = TRUE, !.result = ParseBackupResponse(fn.arg)]
    /\ UNCHANGED <<SELLER_KEY, restoreStatus, pc, licenses, wipeFirst, i, retries,
                   headersSent, reply, stopIssued, log, simple>>

\* --------------------------------------------------------- parsing calls
\* fn holds one call of a parsing function: its argument, and its result
\* once the call has been made.
DurationCall(k) == [op |-> "duration", arg |-> k, done |-> FALSE, result |-> 0]

\* parseDurationFromKeyName(key) is called
CallParseDuration ==
    /\ fn.op = "duration"
    /\ ~fn.done
    /\ fn' = [fn EXCEPT !.done = TRUE, !.result = parseDurationFromKeyName(fn.arg)]
    /\ UNCHANGED <<SELLER_KEY, restoreStatus, pc, licenses, wipeFirst, i, retries,
                   headersSent, reply, stopIssued, log, simple>>

ParseCalls == {DurationCall(k) : k \in KeyNames} \cup {BackupCall(c) : c \in Contents}

ParseInit == RestoreInit(NoLog) /\ fn \in ParseCalls /\ simple = NoRequest

ParseNext ==
    \/ CallParseDuration
    \/ ParseBackup

\* The specification of the parsing functions: a call with any of the
\* arguments is made; the restore state stays as it is at module load.
ParseSpec == ParseInit /\ [][ParseNext]_vars

\* ------------------------------------------ server.js: POST /api/restore
\* The restore handler of server.js keeps its counters in locals and
\* answers once, at its end; simple holds one invocation of it.  calls[k]
\* counts the create calls issued for record k (a history field).

\* if (result.success) / else if (result.message && ...includes('already'))
\* / else, and the inner catch
SimpleClassify(resp) ==
    IF resp.kind = "throw" THEN "failed"
    ELSE IF resp.success THEN "success"
    ELSE IF resp.hasMessage /\ "already" \in resp.message THEN "skipped"
    ELSE "failed"

\* success++, skipped++ or failed++
SimpleCount(h, class) ==
    CASE class = "success" -> [h EXCEPT !.success = @ + 1]
      [] class = "skipped" -> [h EXCEPT !.skipped = @ + 1]
      [] OTHER -> [h EXCEPT !.failed = @ + 1]

\* res.json(...) and the handler returns
SimpleRespond(h, r) ==
    /\ simple' = [h EXCEPT !.pc = "responded"]
    /\ reply' = r

\* the outer catch: res.json({ success: false, error: error.message })
SimpleError(h, msg) ==
    SimpleRespond(h, [to |-> "restore", success |-> FALSE, error |-> msg])

\* The turn of the for-of loop for the record at index idx, up to its
\* await; after the last record the counts are sent.
SimpleEnter(h, idx) ==
    LET lst == h.licenses.list IN
    IF idx >= Len(lst)
    THEN SimpleRespond(h, [to |-> "restore", success |-> TRUE, added |-> h.success,
                           skipped |-> h.skipped, failed |-> h.failed])
    ELSE IF Throws(lst[idx + 1]) THEN SimpleError(h, TypeErrorMsg)
    ELSE /\ simple' = [h EXCEPT !.pc = "create_call", !.index = idx,
                                 !.calls[idx + 1] = @ + 1]
         /\ reply' = NoReply

RestoreRest ==
    <<SELLER_KEY, restoreStatus, pc, licenses, wipeFirst, i, retries, headersSent,
      stopIssued, log, fn>>

\* POST /api/restore comes in: the guards, and the code up to the first await
SimpleRequest(b, wipe) ==
    /\ simple.pc = "idle"
    /\ LET h == [simple EXCEPT !.licenses = b, !.wipeFirst = wipe,
                                !.calls = [k \in 1..Len(b.list) |-> 0]] IN
       IF SELLER_KEY = null THEN SimpleError(h, NotConnected)
       ELSE IF InvalidBody(b) THEN SimpleError(h, InvalidLicenses)
       ELSE IF wipe THEN simple' = [h EXCEPT !.pc = "wipe_keys"] /\ reply' = NoReply
       ELSE SimpleEnter(h, 0)
    /\ UNCHANGED RestoreRest

\* await makeKeyAuthRequest(wipeKeys) returns or throws
SimpleWipeKeysReturn(resp) ==
    /\ simple.pc = "wipe_keys"
    /\ IF resp.kind = "throw" THEN SimpleError(simple, resp.error)
       ELSE simple' = [simple EXCEPT !.pc = "wipe_users"] /\ reply' = NoReply
    /\ UNCHANGED RestoreRest

\* await makeKeyAuthRequest(wipeUsers) returns or throws
SimpleWipeUsersReturn(resp) ==
    /\ simple.pc = "wipe_users"
    /\ IF resp.kind = "throw" THEN SimpleError(simple, resp.error)
       ELSE SimpleEnter(simple, 0)
    /\ UNCHANGED RestoreRest

\* await makeKeyAuthRequest(params) returns or throws: one counter goes up
SimpleCreateReturn(resp) ==
    /\ simple.pc = "create_call"
    /\ simple' = [SimpleCount(simple, SimpleClassify(resp)) EXCEPT !.pc = "sleep"]
    /\ reply' = NoReply
    /\ UNCHANGED RestoreRest

\* await sleep(50) is over: the next turn of the loop
SimpleSleepDone ==
    /\ simple.pc = "sleep"
    /\ SimpleEnter(simple, simple.index + 1)
    /\ UNCHANGED RestoreRest

SimpleNext ==
    \/ \E b \in Bodies, wipe \in BOOLEAN : SimpleRequest(b, wipe)
    \/ \E resp \in Responses : SimpleWipeKeysReturn(resp)
    \/ \E resp \in Responses : SimpleWipeUsersReturn(resp)
    \/ \E resp \in Responses : SimpleCreateReturn(resp)
    \/ SimpleSleepDone

\* The specification of the handler of server.js: one request with any of
\* the bodies, and any outcome of every upstream call.
SimpleSpec == Init /\ [][SimpleNext]_vars


\* ------------------------------------------------------------------ claims
Counted(st) == st.success + st.skipped + st.failed

\* A start request is being handled by invocation w in this step and has
\* passed the seller-key guard and the running guard.
StartValidated(w) ==
    /\ pc[w] = "idle"
    /\ pc'[w] # "idle"
    /\ SELLER_KEY # null
    /\ ~restoreStatus.running

InvalidReply == [to |-> "start", success |-> FALSE, error |-> InvalidLicenses]

\* C1: at most one restore worker is active at any time.
C1_AtMostOneWorker == Cardinality({w \in Workers : Active(w)}) <= 1

\* C2: in every reachable state success + skipped + failed <= processed <= total.
C2_CountedWithinProcessedWithinTotal ==
    /\ Counted(restoreStatus) <= restoreStatus.processed
    /\ restoreStatus.processed <= restoreStatus.total

\* C3: a start request received while running == true is rejected with
\* 'Restore already in progress' and leaves every field of the snapshot unchanged.
C3_RejectedStartLeavesSnapshot ==
    [][\A w \in Workers :
         (pc[w] = "idle" /\ pc'[w] # "idle" /\ restoreStatus.running)
         => /\ pc'[w] = "rejected"
            /\ reply' = [to |-> "start", success |-> FALSE, error |-> AlreadyInProgress]
            /\ restoreStatus' = restoreStatus]_vars

\* C4: right after a start request is accepted the snapshot is exactly
\* running=true, total=len(input), processed=0, success=0, skipped=0, failed=0,
\* currentKey='', error=null, and the acknowledgement carries total = len(input),
\* whatever the snapshot held before.
C4_AcceptedStartResets ==
    \A w \in Workers :
        pc[w] = "acked"
        => /\ restoreStatus =
                [running |-> TRUE, total |-> Len(licenses[w].list), processed |-> 0,
                 success |-> 0, skipped |-> 0, failed |-> 0, currentKey |-> "",
                 error |-> null]
           /\ reply = [to |-> "start", success |-> TRUE, message |-> "Restore started",
                       total |-> Len(licenses[w].list)]

\* C4 witness: a two-item start is acknowledged after an earlier job has ended.
C4_Witness ==
    /\ pc[1] = "done"
    /\ pc[2] = "acked"
    /\ Len(licenses[2].list) = 2

\* C5: a worker that a stop request reached while it was working starts no
\* later item, and ends with running == false, error == 'Stopped by user' and
\* processed <= total.
C5_StopEndsStoppedByUser ==
    [][\A w \in Workers :
         /\ (stopIssued[w] /\ pc[w] \in {"wipe_sleep2", "item_sleep"})
            => pc'[w] \in {pc[w], "done"}
         /\ (stopIssued[w] /\ Active(w) /\ pc'[w] = "done")
            => /\ ~restoreStatus'.running
               /\ restoreStatus'.error = StoppedByUser
               /\ restoreStatus'.processed <= restoreStatus'.total]_vars

\* C6: under fair scheduling every accepted job's worker ends, with
\* running == false when it does.
C6_AcceptedJobEnds ==
    \A w \in Workers : (pc[w] = "acked") ~> (pc[w] = "done" /\ ~restoreStatus.running)

\* C6 witness: an accepted job has ended on a worker fault (a malformed record).
C6_Witness ==
    \E w \in Workers :
        /\ pc[w] = "done"
        /\ ~restoreStatus.running
        /\ restoreStatus.error = TypeErrorMsg

\* C7: a start request whose licenses value is missing, not a list or an empty
\* list fails with the invalid-input error and leaves the snapshot unchanged.
C7_InvalidInputRejected ==
    [][\A w \in Workers :
         (StartValidated(w) /\ (licenses'[w].kind # "array" \/ Len(licenses'[w].list) = 0))
         => /\ pc'[w] = "rejected"
            /\ reply' = InvalidReply
            /\ restoreStatus' = restoreStatus]_vars

\* C8: a start request whose list contains a record lacking a key is rejected
\* up front with the invalid-input error: the snapshot is not reset and no job
\* is started.
C8_KeylessRecordRejected ==
    [][\A w \in Workers :
         (/\ StartValidated(w)
          /\ licenses'[w].kind = "array"
          /\ \E k \in 1..Len(licenses'[w].list) : licenses'[w].list[k].key = undefined)
         => /\ pc'[w] = "rejected"
            /\ reply' = InvalidReply
            /\ restoreStatus' = restoreStatus]_vars

\* C9: when the last attempt of an item is consumed by a rate-limited
\* response, the item is counted in failed.
C9_RateLimitExhaustedCountsFailed ==
    [][\A w \in Workers :
         (pc[w] = "rate_sleep" /\ retries[w] = 1 /\ pc'[w] # "rate_sleep")
         => restoreStatus'.failed = restoreStatus.failed + 1]_vars

\* C10: whenever no worker is in the middle of an item,
\* processed == success + skipped + failed.
C10_BoundaryCountsAddUp ==
    (\A w \in Workers : pc[w] \notin {"create_call", "rate_sleep", "err_sleep"})
    => restoreStatus.processed = Counted(restoreStatus)

\* ------------------------------------------------- claims on one item
\* the responses of a history, in order
Outcomes(l) == SelectSeq(l, LAMBDA e : e.ev = "resp")
\* the kinds of the events of a history, in order
Kinds(l) == [k \in 1..Len(l) |-> l[k].ev]
Counters(st) == <<st.success, st.skipped, st.failed>>

DuplicateWords == {"already", "exists", "duplicate"}
RateWords == {"rate", "limit", "slow"}
IsSuccess(resp) == resp.kind = "json" /\ resp.success
IsFailure(resp) == resp.kind = "json" /\ ~resp.success
IsRateLimited(resp) ==
    /\ IsFailure(resp)
    /\ resp.message \cap RateWords # {}
    /\ resp.message \cap DuplicateWords = {}

\* o is the start of the response sequence [rate-limited, rate-limited, success]
RateRateSuccessPrefix(o) ==
    /\ Len(o) <= 3
    /\ \A k \in 1..Len(o) : IF k < 3 THEN IsRateLimited(o[k].resp) ELSE IsSuccess(o[k].resp)
RateRateSuccess(o) == Len(o) = 3 /\ RateRateSuccessPrefix(o)

\* C11: an item whose create calls answer rate-limited, rate-limited,
\* success has had exactly three create calls with one backoff wait after
\* each of the first two and is then left; over the steps of that item
\* success rises by one, at the third response, and skipped and failed do
\* not change.
C11_RateRateSuccess ==
    [][\A w \in Workers :
        LET before == Outcomes(log[w])
            after == Outcomes(log'[w])
        IN  /\ RateRateSuccess(after) =>
                /\ Kinds(log'[w]) = <<"call", "resp", "wait", "call", "resp", "wait",
                                      "call", "resp">>
                /\ pc'[w] = "item_sleep"
            /\ (log'[w] # log[w] /\ RateRateSuccessPrefix(after)) =>
                Counters(restoreStatus') =
                    IF RateRateSuccess(after)
                    THEN <<restoreStatus.success + 1, restoreStatus.skipped, restoreStatus.failed>>
                    ELSE Counters(restoreStatus)
            /\ (log'[w] # log[w] /\ RateRateSuccess(before)) =>
                Counters(restoreStatus') = Counters(restoreStatus)]_vars

C11_Witness ==
    /\ pc[1] = "item_sleep"
    /\ RateRateSuccess(Outcomes(log[1]))
    /\ Counters(restoreStatus) = <<1, 0, 0>>

\* a failure response whose message contains 'already exists'
IsAlreadyExists(resp) == IsFailure(resp) /\ {"already", "exists"} \subseteq resp.message
\* the last event of the history is such a response
EndsAlreadyExists(l) == Len(l) > 0 /\ l[Len(l)].ev = "resp" /\ IsAlreadyExists(l[Len(l)].resp)

\* C12: the step that receives a failure response whose message contains
\* 'already exists', with or without rate-limit words, adds one to skipped,
\* leaves success and failed alone and leaves the retry loop; the next step
\* of the worker issues no further call for the item and changes no counter.
C12_AlreadyExistsSkippedOnce ==
    [][\A w \in Workers :
        /\ (log'[w] # log[w] /\ EndsAlreadyExists(log'[w])) =>
            /\ Counters(restoreStatus') =
                   <<restoreStatus.success, restoreStatus.skipped + 1, restoreStatus.failed>>
            /\ pc'[w] = "item_sleep"
        /\ (log'[w] # log[w] /\ EndsAlreadyExists(log[w])) =>
            /\ Counters(restoreStatus') = Counters(restoreStatus)
            /\ Len(log'[w]) <= 1]_vars

C12_Witness ==
    /\ pc[1] = "item_sleep"
    /\ EndsAlreadyExists(log[1])
    /\ log[1][Len(log[1])].resp.message = {"already", "exists", "rate", "limit"}
    /\ Counters(restoreStatus) = <<0, 1, 0>>

\* ------------------------------------------------- claims on the routes
\* C13: the return of a wipe call, whatever it is (a failure response, a
\* transport error, an undecodable response), never ends the job and never
\* sets the error: the worker goes on to the sleep after the call with the
\* status object as it was.
C13_WipeFailureDoesNotAbort ==
    [][\A w \in Workers :
        (pc[w] \in {"wipe_keys", "wipe_users"} /\ pc'[w] # pc[w]) =>
            /\ pc'[w] = (IF pc[w] = "wipe_keys" THEN "wipe_sleep1" ELSE "wipe_sleep2")
            /\ restoreStatus' = restoreStatus]_vars

\* C14: a stop request can be served in every state in which a request can
\* be served at all, it always answers { success: true }, and a stop served
\* right after a stop leaves the whole state as the first one left it.
C14_StopSucceedsAndIsIdempotent ==
    [][/\ Quiescent => ENABLED Stop
       /\ reply'.to = "stop" => reply' = [to |-> "stop", success |-> TRUE]
       /\ (reply.to = "stop" /\ reply'.to = "stop") => UNCHANGED vars]_vars

\* a stop has been served while no job was running or had ever run
C14_Witness ==
    /\ reply.to = "stop"
    /\ \A w \in Workers : pc[w] = "idle"
    /\ ~restoreStatus.running

\* a start request is handled in this step (accepted, or rejected: the
\* rejections are the subject of C3 and C7 and are left out here)
StartHandled == \E w \in Workers : pc[w] = "idle" /\ pc'[w] # "idle"
\* worker w is inside the retry loop of an item
InItem(w) == pc[w] \in {"create_call", "rate_sleep", "err_sleep"}
Progress(st) == <<st.success, st.skipped, st.failed, st.processed, st.currentKey, st.error>>

\* C15: in a state whose status object has running == false no worker is
\* inside an item, and from such a state no step other than the handling
\* of a start request changes success, skipped, failed, processed,
\* currentKey or error.
C15_NotRunningIsFinal ==
    [][/\ ~restoreStatus'.running => \A w \in Workers : ~InItem(w)'
       /\ (~restoreStatus.running /\ ~StartHandled) =>
              Progress(restoreStatus') = Progress(restoreStatus)]_vars

AckReply(n) == [to |-> "start", success |-> TRUE, message |-> "Restore started", total |-> n]
UpstreamCall(w) == pc[w] \in {"wipe_keys", "wipe_users", "create_call"}

\* C16: the step that accepts a start sends the acknowledgement and issues
\* no upstream call; a handler waiting on a wipe or create call has sent its
\* response; a response to a start request is sent only by the step that
\* takes the request up, so every request gets exactly one; and a worker
\* that ends, on a thrown wipe call as on any other way out, sends nothing
\* and leaves running == false, with the message of a thrown wipe call in
\* the error field.
C16_AcknowledgedOnceBeforeWork ==
    [][\A w \in Workers :
        /\ pc[w] = "idle" => pc'[w] \in {"idle", "acked", "rejected"}
        /\ (pc[w] = "idle" /\ pc'[w] = "acked") => reply' = AckReply(Len(licenses'[w].list))
        /\ UpstreamCall(w)' => headersSent'[w]
        /\ (pc[w] = "idle" /\ pc'[w] # "idle") => (reply'.to = "start" /\ ~headersSent[w])
        /\ (pc[w] # "idle" /\ pc'[w] # pc[w]) => reply' = NoReply
        /\ (Active(w) /\ pc'[w] = "done") => ~restoreStatus'.running
        /\ (pc[w] \in {"wipe_keys", "wipe_users"} /\ pc'[w] = "done") =>
               restoreStatus'.error \in {DecodeErrorMsg, TransportErrorMsg}]_vars

\* a wipe call of an acknowledged job has thrown
C16_Witness ==
    \E w \in Workers :
        /\ pc[w] = "done"
        /\ headersSent[w]
        /\ reply = NoReply
        /\ ~restoreStatus.running
        /\ restoreStatus.error = TransportErrorMsg

\* C17: no step other than the acceptance of a start lowers success +
\* skipped + failed, and the sum never exceeds total.
C17_CountedMonotoneWithinTotal ==
    [][/\ (\A w \in Workers : ~(pc[w] = "idle" /\ pc'[w] = "acked")) =>
              Counted(restoreStatus') >= Counted(restoreStatus)
       /\ Counted(restoreStatus') <= restoreStatus'.total]_vars

\* --------------------------------------------- claims on the parsing code
\* the marker m is in the key, in whatever case
HasMarker(key, m) == Includes(ToLowerCase(key), m)

\* C19: a call with any key name returns one of the five durations, decided
\* by the first of these that the key contains, case-insensitively:
\* 'lifetime' -> 999999999, '1month' or '-1m' -> 2592000, '1week' or '-1w'
\* -> 604800, '1day' or '-1d' -> 86400, '1year' or '-1y' -> 31536000; and
\* 999999999 when it contains none.
C19_DurationByFirstMarker ==
    (fn.op = "duration" /\ fn.done) =>
        LET key == fn.arg IN
        fn.result =
            CASE HasMarker(key, "lifetime") -> 999999999
              [] HasMarker(key, "1month") \/ HasMarker(key, "-1m") -> 2592000
              [] ~(HasMarker(key, "1month") \/ HasMarker(key, "-1m"))
                 /\ (HasMarker(key, "1week") \/ HasMarker(key, "-1w")) -> 604800
              [] ~(HasMarker(key, "1month") \/ HasMarker(key, "-1m"))
                 /\ ~(HasMarker(key, "1week") \/ HasMarker(key, "-1w"))
                 /\ (HasMarker(key, "1day") \/ HasMarker(key, "-1d")) -> 86400
              [] ~(HasMarker(key, "1month") \/ HasMarker(key, "-1m"))
                 /\ ~(HasMarker(key, "1week") \/ HasMarker(key, "-1w"))
                 /\ ~(HasMarker(key, "1day") \/ HasMarker(key, "-1d"))
                 /\ (HasMarker(key, "1year") \/ HasMarker(key, "-1y")) -> 31536000
              [] OTHER -> 999999999

\* a key with a month marker and, in capitals, the lifetime marker
C19_Witness ==
    /\ fn.op = "duration"
    /\ fn.done
    /\ fn.arg = "Soryn-XXXX-1MLIFETIME"
    /\ fn.result = 999999999

\* the columns of a line: what runs of two or more whitespace characters
\* separate, without the whitespace around the line
Columns(line) == SplitColumns(Trim(line))
FirstColumnIsSoryn(line) == StartsWith(ToLowerCase(Columns(line)[1]), "soryn")
\* a blank line, a border line, the header, a menu or summary line
Decoration(line) ==
    LET t == Trim(line) IN
    \/ t = ""
    \/ \E p \in BorderPrefixes : StartsWith(t, p)
    \/ StartsWith(t, "Key")
    \/ \E m \in {"license(s):", "MAIN MENU", "Select option"} : Includes(t, m)
\* the key, status and level the claim gives the record of an accepted line
ExpectedFields(line) ==
    LET cols == Columns(line) IN
    [key |-> cols[1],
     status |-> IF Len(cols) >= 2 THEN cols[2] ELSE "Not Used",
     level |-> IF Len(cols) >= 3 /\ IsDigits(cols[3]) THEN cols[3] ELSE "1"]
RECURSIVE ExpectedRecords(_)
ExpectedRecords(lines) ==
    IF lines = <<>> THEN <<>>
    ELSE (IF FirstColumnIsSoryn(Head(lines)) /\ ~Decoration(Head(lines))
          THEN <<ExpectedFields(Head(lines))>> ELSE <<>>) \o ExpectedRecords(Tail(lines))
FieldsOf(recs) ==
    [k \in 1..Len(recs) |-> [key |-> recs[k].key, status |-> recs[k].status,
                             level |-> recs[k].level]]

\* C18: for a text that is not JSON the route answers with format 'text'
\* and, in the order of the lines, one record for each line whose first
\* column starts with 'soryn' in any case and which is not a blank, border,
\* header, menu or summary line, and no other record; the record has the
\* first column as key, the second as status ('Not Used' if there is none)
\* and the third as level if it is all digits ('1' otherwise).  The line
\* 'Soryn-AAAAA-BBBBB  Used  2' gives the one record with key
\* 'Soryn-AAAAA-BBBBB', status 'Used' and level '2'.
C18_TextParserRecords ==
    (fn.op = "backup" /\ fn.done /\ fn.arg.kind = "text") =>
        /\ fn.result.success
        /\ fn.result.format = "text"
        /\ FieldsOf(fn.result.licenses) = ExpectedRecords(SplitLines(fn.arg.text))
        /\ \A k \in 1..Len(fn.result.licenses) :
              StartsWith(ToLowerCase(fn.result.licenses[k].key), "soryn")
        /\ fn.arg.text = "Soryn-AAAAA-BBBBB  Used  2" =>
              FieldsOf(fn.result.licenses) =
                  <<[key |-> "Soryn-AAAAA-BBBBB", status |-> "Used", level |-> "2"]>>

\* a line with a status of two words and a third column that is not a number
C18_Witness ==
    /\ fn.op = "backup"
    /\ fn.done
    /\ fn.arg.kind = "text"
    /\ fn.arg.text = " \tsORYN-1week \t Not Used  x2"
    /\ FieldsOf(fn.result.licenses) =
          <<[key |-> "sORYN-1week", status |-> "Not Used", level |-> "1"]>>

\* the list the claim takes from a JSON document: the one under 'licenses',
\* else the one under 'keys', else the document if it is a list, else none
ListOfDocument(doc) ==
    IF doc.licenses.kind = "array" THEN doc.licenses.list
    ELSE IF doc.keys.kind = "array" THEN doc.keys.list
    ELSE IF doc.kind = "array" THEN doc.list
    ELSE <<>>
WithKey(list) == SelectSeq(list, LAMBDA r : r.key # undefined)

\* C20: for a content that is the text of a JSON object or array the route
\* answers with format 'json' and the list of the document (under
\* 'licenses', else under 'keys', else the document itself, else empty)
\* without the records that have no key.
C20_JsonListWithoutKeylessRecords ==
    (fn.op = "backup" /\ fn.done /\ fn.arg.kind = "json"
       /\ fn.arg.doc.kind \in {"object", "array"}) =>
        /\ fn.result.success
        /\ fn.result.format = "json"
        /\ fn.result.licenses = WithKey(ListOfDocument(fn.arg.doc))

\* ------------------------------------------ claims on the retry loop
\* the create calls of a history
Calls(l) == Len(SelectSeq(l, LAMBDA e : e.ev = "call"))
\* a response after which the item is not retried: a success, a duplicate,
\* or a failure that is not a rate limit (a failure with no message too)
IsFinalResponse(resp) == IsSuccess(resp) \/ (IsFailure(resp) /\ ~IsRateLimited(resp))
\* one of the three counters has risen by one, the others are as they were
OneCounterUp(st, nx) ==
    Counters(nx) \in {<<st.success + 1, st.skipped, st.failed>>,
                      <<st.success, st.skipped + 1, st.failed>>,
                      <<st.success, st.skipped, st.failed + 1>>}

\* C21: an item that has been started has had at least one and at most
\* three create calls; nothing follows a success, a duplicate or another
\* non-rate-limit failure response in the history of the item; and the
\* counters change, outside the reset of a start, only in the step in which
\* a worker leaves the retry loop of its item, and then one of them by one.
C21_BoundedCallsOneCount ==
    [][/\ \A w \in Workers :
            LET l == log'[w] IN
            /\ (l # <<>> /\ l # NoLog) => (Calls(l) >= 1 /\ Calls(l) <= 3)
            /\ \A k \in 1..Len(l) :
                   (l[k].ev = "resp" /\ IsFinalResponse(l[k].resp)) => k = Len(l)
       /\ (Counters(restoreStatus') # Counters(restoreStatus) /\ ~StartHandled) =>
            /\ \E w \in Workers : InItem(w) /\ pc'[w] = "item_sleep"
            /\ OneCounterUp(restoreStatus, restoreStatus')]_vars

\* an item left after one call, answered by a failure with no message
C21_Witness ==
    /\ pc[1] = "item_sleep"
    /\ Calls(log[1]) = 1
    /\ Len(log[1]) = 2
    /\ IsFailure(log[1][2].resp) /\ ~log[1][2].resp.hasMessage
    /\ Counters(restoreStatus) = <<0, 0, 1>>

\* the last event of a history is a thrown create call
EndsThrown(l) == Len(l) > 0 /\ l[Len(l)].ev = "resp" /\ l[Len(l)].resp.kind = "throw"
\* a create call of the item has thrown
HasThrown(l) == \E k \in 1..Len(l) : l[k].ev = "resp" /\ l[k].resp.kind = "throw"
EndsSuccess(l) == Len(l) > 0 /\ l[Len(l)].ev = "resp" /\ IsSuccess(l[Len(l)].resp)

\* C22: the step that sees a create call throw changes nothing in the
\* status object and goes to the backoff wait; that wait is the one of 5000
\* ms, shorter than the rate-limit one, and the step after it has one
\* attempt less, adds one to failed if that was the last attempt and
\* changes nothing otherwise, and never ends the job; a success response
\* after thrown calls adds one to success and nothing to failed.
C22_ThrownCallBacksOff ==
    [][\A w \in Workers :
        /\ (log'[w] # log[w] /\ EndsThrown(log'[w])) =>
              /\ pc'[w] = "err_sleep"
              /\ restoreStatus' = restoreStatus
        /\ (EndsThrown(log[w]) /\ log'[w] # log[w]) =>
              /\ log'[w][Len(log[w]) + 1] = [ev |-> "wait", ms |-> 5000]
              /\ 5000 < RateLimitBackoff
              /\ retries'[w] = retries[w] - 1
              /\ pc'[w] = (IF retries[w] = 1 THEN "item_sleep" ELSE "create_call")
              /\ restoreStatus' =
                    (IF retries[w] = 1
                     THEN [restoreStatus EXCEPT !.failed = @ + 1]
                     ELSE restoreStatus)
        /\ (log'[w] # log[w] /\ EndsSuccess(log'[w]) /\ HasThrown(log'[w])) =>
              Counters(restoreStatus') =
                  <<restoreStatus.success + 1, restoreStatus.skipped, restoreStatus.failed>>]_vars

\* an item whose three create calls have thrown: failed once, the job goes on
C22_Witness ==
    /\ pc[1] = "item_sleep"
    /\ Calls(log[1]) = 3
    /\ \A k \in 1..3 : Outcomes(log[1])[k].resp.kind = "throw"
    /\ Counters(restoreStatus) = <<0, 0, 1>>
    /\ restoreStatus.running
    /\ restoreStatus.error = null

\* ------------------------------------------- claims on the item loop
\* worker w is at an item boundary: about to run the loop test
AtBoundary(w) == pc[w] \in {"acked", "wipe_sleep2", "item_sleep"}
\* the index the loop test is about to look at
NextIndex(w) == IF pc[w] = "item_sleep" THEN i[w] + 1 ELSE 0
WorkerMoves(w) == pc'[w] # pc[w] \/ retries'[w] # retries[w] \/ i'[w] # i[w]

\* C23: a worker inside an item stays inside that item or leaves it for
\* the boundary, whether or not running has been cleared: it never ends
\* there, it writes neither running nor error, and after a backoff with
\* attempts left it issues the next create call.  A worker that finds
\* running cleared at a boundary with items left ends with 'Stopped by
\* user' without starting the item, and a worker that has ended stays so.
C23_CancelledAtBoundaryOnly ==
    [][\A w \in Workers :
        /\ (InItem(w) /\ WorkerMoves(w)) =>
              /\ pc'[w] \in {"create_call", "rate_sleep", "err_sleep", "item_sleep"}
              /\ i'[w] = i[w]
              /\ restoreStatus'.running = restoreStatus.running
              /\ restoreStatus'.error = restoreStatus.error
              /\ (pc[w] \in {"rate_sleep", "err_sleep"} /\ retries[w] > 1) =>
                    pc'[w] = "create_call"
        /\ (AtBoundary(w) /\ pc'[w] # pc[w] /\ ~restoreStatus.running
              /\ (pc[w] = "acked" => ~wipeFirst[w])
              /\ NextIndex(w) < Len(licenses[w].list)) =>
              /\ pc'[w] = "done"
              /\ restoreStatus'.error = StoppedByUser
              /\ restoreStatus'.processed = restoreStatus.processed
        /\ pc[w] = "done" => pc'[w] = "done"]_vars

\* the stop arrived inside the first item, and the item went on to its
\* success
C23_Witness ==
    /\ pc[1] = "item_sleep" /\ pc[2] = "idle"
    /\ i[1] = 0
    /\ ~wipeFirst[1]
    /\ stopIssued[1]
    /\ ~restoreStatus.running
    /\ reply = NoReply
    /\ restoreStatus.success = 1

\* C24: a worker issues the first create call of an item only from a
\* boundary, for the item right after the one it has left (the first one
\* after the start), with currentKey the key of that item and processed
\* its index plus one in the state in which the call is out; inside an item
\* every further call is for the same item; and the index changes in no
\* other step, but for the return of the handler.
C24_ItemsInOrder ==
    [][\A w \in Workers :
        /\ (AtBoundary(w) /\ pc'[w] = "create_call") =>
              /\ i'[w] = NextIndex(w)
              /\ restoreStatus'.currentKey = licenses[w].list[NextIndex(w) + 1].key
              /\ restoreStatus'.processed = NextIndex(w) + 1
        /\ (pc[w] # "create_call" /\ pc'[w] = "create_call") =>
              (AtBoundary(w) \/ pc[w] \in {"rate_sleep", "err_sleep"})
        /\ (InItem(w) /\ pc'[w] # "done") => i'[w] = i[w]
        /\ i'[w] # i[w] => (pc'[w] = "done" \/ (pc[w] = "item_sleep" /\ i'[w] = i[w] + 1))]_vars

\* the first call of the second item is out
C24_Witness ==
    /\ pc[1] = "create_call" /\ pc[2] = "idle"
    /\ i[1] = 1
    /\ retries[1] = MaxRetries
    /\ restoreStatus.processed = 2
    /\ restoreStatus.currentKey = GoodRecord.key

\* worker w ends in this step
Ends(w) == Active(w) /\ pc'[w] = "done"
\* ... by running off the end of the list
EndsAtListEnd(w) ==
    /\ Ends(w)
    /\ AtBoundary(w)
    /\ (pc[w] = "acked" => ~wipeFirst[w])
    /\ NextIndex(w) >= Len(licenses[w].list)

\* C25: a worker that runs off the end of its list with no stop request
\* issued during the job leaves running == false, currentKey == 'Complete',
\* error == null and processed == total; and a worker that ends leaves
\* currentKey == 'Complete' with error == null only if it has run off the
\* end of its list with no stop request issued during the job.
C25_CompleteOnlyWhenNormal ==
    [][\A w \in Workers :
        /\ (EndsAtListEnd(w) /\ ~stopIssued[w]) =>
              /\ ~restoreStatus'.running
              /\ restoreStatus'.currentKey = CompleteKey
              /\ restoreStatus'.error = null
              /\ restoreStatus'.processed = restoreStatus'.total
        /\ (Ends(w) /\ restoreStatus'.currentKey = CompleteKey
              /\ restoreStatus'.error = null) =>
              (EndsAtListEnd(w) /\ ~stopIssued[w])]_vars

\* ---------------------------------------- claims on the status object
\* the state of the program outside the status object
ProgramRest == <<SELLER_KEY, pc, licenses, wipeFirst, i, retries, headersSent>>

\* C26: a status request answers with the status object as it is and
\* changes nothing; a stop request leaves running == false and changes no
\* other field of the status object (total, processed, success, skipped,
\* failed, currentKey, error) and nothing else of the program.
C26_StatusAndStopFrame ==
    [][/\ reply'.to = "status" =>
            /\ reply'.body = restoreStatus
            /\ restoreStatus' = restoreStatus
            /\ ProgramRest' = ProgramRest
       /\ reply'.to = "stop" =>
            /\ restoreStatus' = [restoreStatus EXCEPT !.running = FALSE]
            /\ ProgramRest' = ProgramRest]_vars

\* a stop request has been answered during the second item of a job
C26_Witness ==
    /\ reply.to = "stop"
    /\ pc[1] = "create_call"
    /\ ~restoreStatus.running
    /\ restoreStatus.total = 2
    /\ restoreStatus.processed = 2
    /\ restoreStatus.success = 1
    /\ restoreStatus.currentKey = GoodRecord.key
    /\ restoreStatus.error = null

\* the number of items the running worker w has started
Started(w) == IF InItem(w) \/ pc[w] = "item_sleep" THEN i[w] + 1 ELSE 0
\* the worker of the job accepted last
Latest(w) ==
    /\ Active(w)
    /\ \A v \in Workers : v > w => pc[v] \in {"idle", "rejected"}

\* C27: on every step that handles no start request, processed does not
\* decrease; and while the worker of the job accepted last is running,
\* processed is the number of items that worker has started.
C27_ProcessedCountsOwnItems ==
    [][/\ ~StartHandled => restoreStatus'.processed >= restoreStatus.processed
       /\ \A w \in Workers :
            Latest(w)' => restoreStatus'.processed = Started(w)']_vars

\* ------------------------------------------- claims on a stale stop
\* no job is running
NoJob == \A w \in Workers : ~Active(w)
\* the last request answered was a stop request made while no job was running
StaleStop == reply.to = "stop" /\ NoJob
\* worker w runs and no other start request has been accepted
OnlyJob(w) ==
    /\ Active(w)
    /\ \A v \in Workers \ {w} : pc[v] \in {"idle", "rejected"}
\* the worker leaves a boundary for the item at index NextIndex(w) or for the end
LeavesBoundary(w) ==
    /\ AtBoundary(w)
    /\ pc'[w] # pc[w]
    /\ (pc[w] = "acked" => ~wipeFirst[w])

\* C28: a start request that follows a stop request made while no job was
\* running is not rejected as already in progress, and if accepted it
\* leaves running == true, error == null and no stop recorded for the job;
\* and a job with no stop request made during it goes from every boundary
\* to the next item, ends on a record that throws, or ends after its last
\* item with error == null and processed == total.
C28_StaleStopHasNoEffect ==
    [][\A w \in Workers :
        /\ (StaleStop /\ pc[w] = "idle" /\ pc'[w] = "acked") =>
              /\ restoreStatus'.running
              /\ restoreStatus'.error = null
              /\ restoreStatus'.processed = 0
              /\ ~stopIssued'[w]
        /\ (StaleStop /\ pc[w] = "idle" /\ pc'[w] = "rejected") =>
              restoreStatus'.error \in {NotConnected, InvalidLicenses}
        /\ (OnlyJob(w) /\ ~stopIssued[w] /\ LeavesBoundary(w)) =>
              LET lst == licenses[w].list
                  idx == NextIndex(w) IN
              IF idx >= Len(lst)
              THEN /\ pc'[w] = "done"
                   /\ restoreStatus'.error = null
                   /\ restoreStatus'.currentKey = CompleteKey
                   /\ restoreStatus'.processed = restoreStatus'.total
                   /\ restoreStatus'.processed = Len(lst)
              ELSE IF Throws(lst[idx + 1])
              THEN pc'[w] = "done"
              ELSE pc'[w] = "create_call" /\ i'[w] = idx]_vars

\* ------------------------------------- claims on the handler of server.js
\* every record of the list has a key
AllKeyed(lst) == \A k \in 1..Len(lst) : lst[k].key # undefined

\* C29: no record of a request ever has more than one create call; no
\* response is sent before the handler has ended; and once the handler of
\* a connected server has ended on a request whose licenses are an array
\* of records with keys, every record has had exactly one create call and
\* the response carries counts with added + skipped + failed == the
\* length of the list.
C29_SimpleOneCallEach ==
    /\ \A k \in 1..Len(simple.calls) : simple.calls[k] <= 1
    /\ (simple.pc \notin {"idle", "responded"}) => reply = NoReply
    /\ (/\ simple.pc = "responded"
        /\ SELLER_KEY # null
        /\ simple.licenses.kind = "array"
        /\ AllKeyed(simple.licenses.list)) =>
            /\ \A k \in 1..Len(simple.calls) : simple.calls[k] = 1
            /\ reply.to = "restore"
            /\ reply.success
            /\ reply.added + reply.skipped + reply.failed = Len(simple.licenses.list)
====
